---------------------------- MODULE Spec2Model ----------------------------
(***************************************************************************)
(* TextReaper: page reconciliation (pdf_parse.py), paragraph chunking      *)
(* (epub_parse.py) and the range-scoped driver with its OutputManager      *)
(* (extract_literary.py).                                                  *)
(*                                                                         *)
(* Text is a sequence of one-character strings.  A file is the sequence of *)
(* characters stored in it.  The header line of a section is kept as one   *)
(* token, Header(p).                                                       *)
(***************************************************************************)
EXTENDS Integers, Sequences, FiniteSets, TLC

VARIABLES
    pc,       \* position of the running operation
    args,     \* arguments of process_pages / OutputManager
    sepDir,   \* file names in sep_pages/<document>/
    results,  \* replies of the extraction service, by unit index
    pp,       \* locals of process_pages for the current document
    om,       \* fields of the OutputManager instance
    disk,     \* files of output/<document>/ : name -> characters
    saved,    \* output directory kept from the preceding run
    feed,     \* results still to be handed to the OutputManager
    sc,       \* locals of split_content
    pdf,      \* locals of parse_pdf
    queue,    \* document directories process_pages has still to take
    log,      \* documents process_pages is through with, and how each ended
    run,      \* which run over the document this is
    epub      \* locals of parse_epub

vars == <<pc, args, sepDir, results, pp, om, disk, saved, feed, sc, pdf,
          queue, log, run, epub>>

-----------------------------------------------------------------------------
(* Bounds of the model *)

MaxUnits == 3
MaxInterval == 3
MaxTextLen == 5
MaxChunkSize == 3
MaxPages == 3
MaxTotal == 3

-----------------------------------------------------------------------------
(* Characters, text files *)

NL == "\n"
CR == "\r"

\* Python's None and a present argument
None == <<>>
Some(n) == <<n>>

Max(a, b) == IF a >= b THEN a ELSE b
Min(a, b) == IF a <= b THEN a ELSE b

\* open(..., "w"/"a") in text mode: "\n" is written as os.linesep, which is
\* "\n" on the platform modelled
os_linesep == <<NL>>

RECURSIVE WriteText(_)
WriteText(s) ==
    IF s = <<>> THEN <<>>
    ELSE (IF Head(s) = NL THEN os_linesep ELSE <<Head(s)>>) \o WriteText(Tail(s))

\* open(..., "r") in text mode, newline=None: "\r\n" and "\r" are read as "\n"
RECURSIVE ReadText(_)
ReadText(s) ==
    IF s = <<>> THEN <<>>
    ELSE IF Head(s) = CR
         THEN IF Len(s) >= 2 /\ s[2] = NL
              THEN <<NL>> \o ReadText(Tail(Tail(s)))
              ELSE <<NL>> \o ReadText(Tail(s))
         ELSE <<Head(s)>> \o ReadText(Tail(s))

Put(d, name, content) ==
    [x \in (DOMAIN d) \cup {name} |-> IF x = name THEN content ELSE d[x]]

Remove(d, name) == [x \in (DOMAIN d) \ {name} |-> d[x]]

EmptyDisk == [x \in {} |-> <<>>]

-----------------------------------------------------------------------------
(* File names *)

RECURSIVE Digits(_)
Digits(n) ==
    IF n < 10 THEN <<ToString(n)>>
    ELSE Digits(n \div 10) \o <<ToString(n % 10)>>

RECURSIVE zfill(_, _)
zfill(s, width) == IF Len(s) >= width THEN s ELSE zfill(<<"0">> \o s, width)

DigitChars == {ToString(i) : i \in 0..9}

DigitVal(c) == CHOOSE i \in 0..9 : ToString(i) = c

RECURSIVE ToInt(_)
ToInt(ds) ==
    IF ds = <<>> THEN 0
    ELSE 10 * ToInt(SubSeq(ds, 1, Len(ds) - 1)) + DigitVal(ds[Len(ds)])

IsDigit(c) == c \in DigitChars

\* f"temp_batch_{n:03d}.txt"
TempWidth == 3
TempFileName(n) == <<"temp_batch_">> \o zfill(Digits(n), TempWidth) \o <<".txt">>

IsTempName(name) == Head(name) = "temp_batch_"

\* f"{pdf_name}{page_range}_literary.txt", page_range = f"_pages_{start}-{end}"
OutputFileName(page_range) ==
    <<"_pages_">> \o Digits(page_range[1]) \o <<"-">> \o Digits(page_range[2])
        \o <<"_literary.txt">>

\* order of characters in a file name: "." sorts before the digits
CharRank(c) == IF IsDigit(c) THEN 1 + DigitVal(c) ELSE 0

\* Python's str comparison of two names with the same prefix
RECURSIVE StrLess(_, _)
StrLess(a, b) ==
    IF b = <<>> THEN FALSE
    ELSE IF a = <<>> THEN TRUE
    ELSE IF Head(a) = Head(b) THEN StrLess(Tail(a), Tail(b))
    ELSE CharRank(Head(a)) < CharRank(Head(b))

\* sorted(self.temp_files)
SortedNames(names) == SortSeq(names, StrLess)

-----------------------------------------------------------------------------
(* OutputManager *)

\* the line "=== 第{page_num}页 ===" of a section
Header(page_num) == "=== " \o ToString(page_num) \o " ==="

\* the three writes of one section: "\n=== 第N页 ===\n", content, "\n"
Section(page_num, content) == <<NL, Header(page_num), NL>> \o content \o <<NL>>

OutputManager(dump_interval) ==
    [dump_interval |-> dump_interval,
     current_batch |-> <<>>,
     batch_count   |-> 0,
     temp_files    |-> <<>>]

\* add_content without the test of the content
add_content_always(o, page_number, content) ==
    [o EXCEPT !.current_batch =
         Append(@, [page |-> page_number, content |-> content])]

add_content(o, page_number, content) ==
    IF content # <<>>
    THEN [o EXCEPT !.current_batch =
              Append(@, [page |-> page_number, content |-> content])]
    ELSE o

RECURSIVE InsertByPage(_, _)
InsertByPage(sorted, x) ==
    IF sorted = <<>> THEN <<x>>
    ELSE IF x.page < Head(sorted).page THEN <<x>> \o sorted
    ELSE <<Head(sorted)>> \o InsertByPage(Tail(sorted), x)

\* sorted(batch, key=lambda x: x[0]) : stable, ascending page number
RECURSIVE SortedBatch(_)
SortedBatch(batch) ==
    IF batch = <<>> THEN <<>>
    ELSE InsertByPage(SortedBatch(SubSeq(batch, 1, Len(batch) - 1)), batch[Len(batch)])

RECURSIVE Sections(_)
Sections(batch) ==
    IF batch = <<>> THEN <<>>
    ELSE Section(Head(batch).page, Head(batch).content) \o Sections(Tail(batch))

\* _write_batch writing only the first entry of the sorted batch
write_batch_first_only(d, filename, batch) ==
    Put(d, filename, WriteText(Sections(SubSeq(SortedBatch(batch), 1, 1))))

\* _write_batch opening the temp file "a" instead of "w"
write_batch_appending(d, filename, batch) ==
    Put(d, filename,
        (IF filename \in DOMAIN d THEN d[filename] ELSE <<>>)
            \o WriteText(Sections(SortedBatch(batch))))

write_batch(d, filename, batch) ==
    Put(d, filename, WriteText(Sections(SortedBatch(batch))))

\* dump_interval_batch writing a file and advancing the sequence number for
\* an empty buffer too
dump_interval_batch_always(o, d) ==
    LET n         == o.batch_count + 1
        temp_file == TempFileName(n)
    IN  [o |-> [o EXCEPT !.batch_count = n,
                         !.temp_files = Append(@, temp_file),
                         !.current_batch = <<>>],
         d |-> write_batch(d, temp_file, o.current_batch)]

dump_interval_batch(o, d) ==
    IF o.current_batch = <<>>
    THEN [o |-> o, d |-> d]
    ELSE LET n         == o.batch_count + 1
             temp_file == TempFileName(n)
         IN  [o |-> [o EXCEPT !.batch_count = n,
                              !.temp_files = Append(@, temp_file),
                              !.current_batch = <<>>],
              d |-> write_batch(d, temp_file, o.current_batch)]

\* the body of the merge loop, for the temp files names[lo..hi] in the order
\* given: outfile.write(infile.read()) for each of them
RECURSIVE CopyAll(_, _, _, _)
CopyAll(d, names, lo, hi) ==
    IF lo > hi THEN <<>>
    ELSE IF lo = hi THEN WriteText(ReadText(d[names[lo]]))
    ELSE LET mid == (lo + hi) \div 2
         IN  CopyAll(d, names, lo, mid) \o CopyAll(d, names, mid + 1, hi)

\* os.remove of every temp file
\* a cleanup that removes every temp_batch file of the directory, whoever
\* wrote it
remove_every_temp_file(d, names) ==
    [x \in {y \in DOMAIN d : ~IsTempName(y)} |-> d[x]]

RemoveAll(d, names) ==
    [x \in (DOMAIN d) \ {names[i] : i \in 1..Len(names)} |-> d[x]]

\* merge_and_cleanup without the flush of the last pending batch
merge_without_last_flush(o, d, page_range) ==
    IF o.temp_files = <<>> /\ o.current_batch = <<>>
    THEN [o |-> o, d |-> d]
    ELSE LET output_file == OutputFileName(page_range)
             order       == SortedNames(o.temp_files)
             merged      == CopyAll(d, order, 1, Len(order))
         IN  [o |-> [o EXCEPT !.temp_files = <<>>],
              d |-> Put(RemoveAll(d, order), output_file, merged)]

\* merge_and_cleanup without the early return: it rewrites the final file
\* even when nothing is pending
merge_rewriting_always(o, d, page_range) ==
    LET s           == IF o.current_batch # <<>>
                       THEN dump_interval_batch(o, d)
                       ELSE [o |-> o, d |-> d]
        output_file == OutputFileName(page_range)
        order       == SortedNames(s.o.temp_files)
        merged      == CopyAll(s.d, order, 1, Len(order))
    IN  [o |-> [s.o EXCEPT !.temp_files = <<>>],
         d |-> Put(RemoveAll(s.d, order), output_file, merged)]

merge_and_cleanup(o, d, page_range) ==
    IF o.temp_files = <<>> /\ o.current_batch = <<>>
    THEN [o |-> o, d |-> d]
    ELSE LET s           == IF o.current_batch # <<>>
                            THEN dump_interval_batch(o, d)
                            ELSE [o |-> o, d |-> d]
             output_file == OutputFileName(page_range)
             order       == SortedNames(s.o.temp_files)
             merged      == CopyAll(s.d, order, 1, Len(order))
         IN  [o |-> [s.o EXCEPT !.temp_files = <<>>],
              d |-> Put(RemoveAll(s.d, order), output_file, merged)]

append_to_file(d, page_number, content, page_range) ==
    IF content = <<>> THEN d
    ELSE LET output_file == OutputFileName(page_range)
             old         == IF output_file \in DOMAIN d THEN d[output_file] ELSE <<>>
         IN  Put(d, output_file, old \o WriteText(Section(page_number, content)))

-----------------------------------------------------------------------------
(* Unit files written by the parsers, as process_pages sees them *)

\* s.split(sep)
RECURSIVE Split(_, _)
Split(s, sep) ==
    IF \A i \in 1..Len(s) : s[i] # sep THEN <<s>>
    ELSE LET i == CHOOSE j \in 1..Len(s) :
                      s[j] = sep /\ \A k \in 1..(j - 1) : s[k] # sep
         IN  <<SubSeq(s, 1, i - 1)>> \o Split(SubSeq(s, i + 1, Len(s)), sep)

\* parse_pdf: f"page_{str(page_num + 1).zfill(page_number_width)}.json"
PageFileName(page_number, total_pages) ==
    <<"page", "_">> \o zfill(Digits(page_number), Len(Digits(total_pages)))
        \o <<".", "json">>

\* parse_epub: f'chunk_{chunk_index:04d}.json'
ChunkWidth == 4
ChunkFileName(chunk_index) ==
    <<"chunk", "_">> \o zfill(Digits(chunk_index), ChunkWidth) \o <<".", "json">>

\* parse_epub: 'book_info.json'
BookInfoFileName == <<"book", "_", "info", ".", "json">>

\* the directory parse_pdf leaves for a document of total_pages pages
PdfFiles(total_pages) ==
    {PageFileName(n, total_pages) : n \in 1..total_pages}

\* the directory parse_epub leaves for a book of `count` chunks
EpubFiles(count) ==
    {ChunkFileName(i) : i \in 1..count} \cup {BookInfoFileName}

\* the files that hold a content unit
UnitFiles(dir) == {f \in dir : f[1] \in {"page", "chunk"}}

\* int(''.join(filter(str.isdigit, filename.split('_')[1].split('.')[0]))),
\* 0 on IndexError and ValueError
get_page_number(filename) ==
    LET parts == Split(filename, "_")
    IN  IF Len(parts) < 2 THEN 0
        ELSE LET digits == SelectSeq(Split(parts[2], ".")[1], IsDigit)
             IN  IF digits = <<>> THEN 0 ELSE ToInt(digits)

\* [f for f in os.listdir(pdf_path) if f.endswith('.json')]
page_files_of(dir) ==
    {f \in dir : Len(f) >= 2 /\ f[Len(f) - 1] = "." /\ f[Len(f)] = "json"}

\* {get_page_number(f): f for f in page_files}
\* a map that finds a file under every index up to the number of files
page_file_map_all(page_files) ==
    [n \in 0..Cardinality(page_files) |-> CHOOSE f \in page_files : TRUE]

page_file_map_of(page_files) ==
    [n \in {get_page_number(f) : f \in page_files} |->
        CHOOSE f \in page_files : get_page_number(f) = n]

-----------------------------------------------------------------------------
(* process_pages: range resolution *)

\* the start taken without the lower clamp
actual_start_unclamped(start_page, total_pages) ==
    IF start_page = None THEN 1
    ELSE Min(start_page[1], total_pages)

actual_start_of(start_page, total_pages) ==
    IF start_page = None THEN 1
    ELSE Max(1, Min(start_page[1], total_pages))

\* the end clamped into [1, total_pages] like the start
actual_end_clamped(end_page, total_pages) ==
    IF end_page = None THEN total_pages
    ELSE Max(1, Min(end_page[1], total_pages))

actual_end_of(end_page, total_pages) ==
    IF end_page = None THEN total_pages
    ELSE Min(end_page[1], total_pages)

-----------------------------------------------------------------------------
(* Values of the variables while the operation they belong to is not running *)

NoArgs == [start_page |-> None, end_page |-> None,
           storage_mode |-> "append", dump_interval |-> 1]
NoLocals == [total_pages |-> 0, actual_start |-> 0, actual_end |-> 0,
             current_page |-> 0, pages_processed |-> 0]
NoSplit == [text |-> <<>>, chunk_size |-> 0, paragraphs |-> <<>>, i |-> 0,
            chunks |-> <<>>, current_chunk |-> <<>>, current_size |-> 0]
NoEpub == [items |-> <<>>, chunk_size |-> 0, chunk_index |-> 0,
           chunks |-> <<>>, i |-> 0, files |-> EmptyDisk, chapters |-> <<>>,
           item |-> 0]
NoPdf == [total_pages |-> 0, all_pages_text |-> <<>>, page_num |-> 0,
          pages |-> <<>>, files |-> EmptyDisk, unread |-> {}]

\* the replies of the extraction service: nothing found, or extracted text
ResultSet == {<<>>, <<"a">>, <<"b", CR, "c">>}

OptPages == {None} \cup {Some(n) : n \in 0..(MaxUnits + 1)}

-----------------------------------------------------------------------------
(* process_pages on one document directory *)

Init ==
    /\ pc = "parse"
    /\ args \in [start_page : OptPages, end_page : OptPages,
                 storage_mode : {"append", "batch"},
                 dump_interval : 1..MaxInterval]
    /\ sepDir = {}
    /\ results = <<>>
    /\ pp = NoLocals
    /\ om = OutputManager(args.dump_interval)
    /\ disk = EmptyDisk
    /\ saved = EmptyDisk
    /\ feed = <<>>
    /\ sc = NoSplit
    /\ queue = <<>>
    /\ log = <<>>
    /\ run = 0
    /\ epub = NoEpub
    /\ pdf = NoPdf

\* parse_pdf has written the unit files of a document
ParsePdf ==
    /\ pc = "parse"
    /\ \E n \in 0..MaxUnits : sepDir' = PdfFiles(n)
    /\ pc' = "resolve"
    /\ UNCHANGED <<args, results, pp, om, disk, saved, feed, sc, pdf,
                 queue, log, run, epub>>

\* parse_epub has written the unit files and book_info.json of a book
ParseEpub ==
    /\ pc = "parse"
    /\ \E k \in 0..MaxUnits : sepDir' = EpubFiles(k)
    /\ pc' = "resolve"
    /\ UNCHANGED <<args, results, pp, om, disk, saved, feed, sc, pdf,
                 queue, log, run, epub>>

\* lines 298-320: list the files, resolve the range, create the manager
Resolve ==
    /\ pc = "resolve"
    /\ LET page_files == page_files_of(sepDir)
           total      == Cardinality(page_files)
           s          == actual_start_of(args.start_page, total)
           e          == actual_end_of(args.end_page, total)
       IN  IF page_files = {}
           THEN pc' = "skipped" /\ UNCHANGED <<pp, om>>
           ELSE /\ pp' = [total_pages |-> total, actual_start |-> s,
                          actual_end |-> e, current_page |-> s,
                          pages_processed |-> 0]
                /\ IF s > e
                   THEN pc' = "rejected" /\ UNCHANGED om
                   ELSE pc' = "loop" /\ om' = OutputManager(args.dump_interval)
    /\ UNCHANGED <<args, sepDir, results, disk, saved, feed, sc, pdf,
                 queue, log, run, epub>>

page_range_of(l) == <<l.actual_start, l.actual_end>>

\* lines 324-355: one iteration of the page loop
ProcessPage ==
    /\ pc = "loop"
    /\ pp.current_page <= pp.actual_end
    /\ LET p   == pp.current_page
           map == page_file_map_of(page_files_of(sepDir))
       IN  IF p \notin DOMAIN map
           THEN /\ pp' = [pp EXCEPT !.current_page = p + 1]
                /\ UNCHANGED <<results, om, disk>>
           ELSE \E literary_sentences \in ResultSet :
                /\ p \in DOMAIN results => literary_sentences = results[p]
                /\ results' = Put(results, p, literary_sentences)
                /\ IF args.storage_mode = "batch"
                   THEN LET o1 == add_content(om, p, literary_sentences)
                            n  == pp.pages_processed + 1
                            s  == IF n % args.dump_interval = 0
                                  THEN dump_interval_batch(o1, disk)
                                  ELSE [o |-> o1, d |-> disk]
                        IN  /\ om' = s.o
                            /\ disk' = s.d
                            /\ pp' = [pp EXCEPT !.current_page = p + 1,
                                                !.pages_processed = n]
                   ELSE /\ disk' = append_to_file(disk, p, literary_sentences,
                                                  page_range_of(pp))
                        /\ pp' = [pp EXCEPT !.current_page = p + 1]
                        /\ UNCHANGED om
    /\ UNCHANGED <<pc, args, sepDir, saved, feed, sc, pdf,
                 queue, log, run, epub>>

\* lines 357-361: the range is exhausted
Finish ==
    /\ pc = "loop"
    /\ pp.current_page > pp.actual_end
    /\ IF args.storage_mode = "batch"
       THEN LET s == merge_and_cleanup(om, disk, page_range_of(pp))
            IN  om' = s.o /\ disk' = s.d
       ELSE UNCHANGED <<om, disk>>
    /\ pc' = "done"
    /\ UNCHANGED <<args, sepDir, results, pp, saved, feed, sc, pdf,
                 queue, log, run, epub>>

Next == ParsePdf \/ ParseEpub \/ Resolve \/ ProcessPage \/ Finish

Spec == Init /\ [][Next]_vars

-----------------------------------------------------------------------------
(* Reading an output file back as its sections *)

PageNumbers == 0..(MaxUnits + 2)

IsHeader(tok) == \E p \in PageNumbers : tok = Header(p)

HeaderPage(tok) == CHOOSE p \in PageNumbers : tok = Header(p)

\* the page numbers of the section headers of a file, in file order
RECURSIVE SectionPages(_)
SectionPages(file) ==
    IF file = <<>> THEN <<>>
    ELSE (IF IsHeader(Head(file)) THEN <<HeaderPage(Head(file))>> ELSE <<>>)
             \o SectionPages(Tail(file))

Ascending(pages) ==
    \A i \in 1..Len(pages) : \A j \in 1..Len(pages) : i < j => pages[i] < pages[j]

Count(p, pages) == Cardinality({i \in 1..Len(pages) : pages[i] = p})

InRange(p) == pp.actual_start <= p /\ p <= pp.actual_end

NonEmptyResult(p) == p \in DOMAIN results /\ results[p] # <<>>

FinalFile == OutputFileName(page_range_of(pp))

-----------------------------------------------------------------------------
(* Two runs over the same document: append mode, then batch mode with        *)
(* dump_interval = number of units of the range, into an empty directory     *)

InitEquiv ==
    /\ Init
    /\ args.storage_mode = "append"
    /\ args.dump_interval = 1

Rerun ==
    /\ pc = "done"
    /\ args.storage_mode = "append"
    /\ saved' = disk
    /\ disk' = EmptyDisk
    /\ args' = [args EXCEPT !.storage_mode = "batch",
                            !.dump_interval = pp.actual_end - pp.actual_start + 1]
    /\ pp' = NoLocals
    /\ pc' = "resolve"
    /\ UNCHANGED <<sepDir, results, om, feed, sc, pdf, queue, log, run, epub>>

NextEquiv == Next \/ Rerun

SpecEquiv == InitEquiv /\ [][NextEquiv]_vars

-----------------------------------------------------------------------------
(* The OutputManager fed directly: results handed over in any order, a flush *)
(* after every dump_interval-th result, then merge_and_cleanup               *)

Perms(n) == {f \in [1..n -> 1..n] : \A i \in 1..n : \A j \in 1..n : f[i] = f[j] => i = j}

Feeds(n) ==
    {[i \in 1..n |-> [page |-> f[i], content |-> c[i]]] :
        f \in Perms(n), c \in [1..n -> ResultSet]}

InitOM ==
    /\ pc = "feed"
    /\ \E n \in 1..MaxUnits :
          /\ feed \in Feeds(n)
          /\ pp = [NoLocals EXCEPT !.total_pages = n, !.actual_start = 1,
                                   !.actual_end = n]
    /\ \E k \in 1..MaxInterval :
          /\ args = [NoArgs EXCEPT !.storage_mode = "batch", !.dump_interval = k]
          /\ om = OutputManager(k)
    /\ sepDir = {}
    /\ results = <<>>
    /\ disk = EmptyDisk
    /\ saved = EmptyDisk
    /\ sc = NoSplit
    /\ queue = <<>>
    /\ log = <<>>
    /\ run = 0
    /\ epub = NoEpub
    /\ pdf = NoPdf

Hand ==
    /\ pc = "feed"
    /\ feed # <<>>
    /\ LET r  == Head(feed)
           o1 == add_content(om, r.page, r.content)
           n  == pp.pages_processed + 1
           s  == IF n % om.dump_interval = 0
                 THEN dump_interval_batch(o1, disk)
                 ELSE [o |-> o1, d |-> disk]
       IN  /\ om' = s.o
           /\ disk' = s.d
           /\ pp' = [pp EXCEPT !.pages_processed = n]
           /\ results' = Put(results, r.page, r.content)
    /\ feed' = Tail(feed)
    /\ UNCHANGED <<pc, args, sepDir, saved, sc, pdf,
                 queue, log, run, epub>>

Finalize ==
    /\ pc = "feed"
    /\ feed = <<>>
    /\ LET s == merge_and_cleanup(om, disk, page_range_of(pp))
       IN  om' = s.o /\ disk' = s.d
    /\ pc' = "done"
    /\ UNCHANGED <<args, sepDir, results, pp, saved, feed, sc, pdf,
                 queue, log, run, epub>>

NextOM == Hand \/ Finalize

SpecOM == InitOM /\ [][NextOM]_vars

-----------------------------------------------------------------------------
(* Claims about the OutputManager and process_pages *)

\* C1: in batch mode, whatever the order in which results are handed to the
\* OutputManager and whatever the flush interval, the sections of the final
\* file written by merge_and_cleanup are in ascending unit index.
C1_BatchOrdering ==
    (pc = "done" /\ FinalFile \in DOMAIN disk)
        => Ascending(SectionPages(disk[FinalFile]))

\* C2: the batch-mode run with dump_interval = number of units of the range
\* leaves exactly the files, byte for byte, that the append-mode run over the
\* same units and the same extraction results left.
C2_ModeEquivalence ==
    (pc = "done" /\ args.storage_mode = "batch") => disk = saved

\* C7: the total against which process_pages resolves the range is the number
\* of persisted content units; with no requested range the range is {1, N};
\* every index of the resolved range has a persisted unit.
C7_TotalIsPersistedUnits ==
    pc \in {"loop", "done"} =>
        LET N == Cardinality(UnitFiles(sepDir))
        IN  /\ pp.total_pages = N
            /\ (args.start_page = None /\ args.end_page = None)
                   => (pp.actual_start = 1 /\ pp.actual_end = N)
            /\ \A p \in pp.actual_start..pp.actual_end :
                   \E f \in UnitFiles(sepDir) : get_page_number(f) = p

\* C10: after a batch-mode run that completes, with at least one non-empty
\* result, the final file holds exactly one section for every unit of the range
\* with a non-empty result and none for any other unit, no temporary file
\* written by the run remains, and the pending buffer and the temp-file list
\* are empty.
C10_FinalizeCompleteness ==
    (pc = "done" /\ args.storage_mode = "batch"
         /\ \E p \in PageNumbers : InRange(p) /\ NonEmptyResult(p))
        => /\ FinalFile \in DOMAIN disk
           /\ \A p \in PageNumbers :
                  Count(p, SectionPages(disk[FinalFile]))
                      = IF InRange(p) /\ NonEmptyResult(p) THEN 1 ELSE 0
           /\ \A n \in 1..om.batch_count : TempFileName(n) \notin DOMAIN disk
           /\ om.current_batch = <<>>
           /\ om.temp_files = <<>>

\* a batch run that flushed at an interval, flushed the rest at the end, and
\* met an empty result on the way
C10_Witness ==
    /\ pc = "done"
    /\ args.storage_mode = "batch"
    /\ om.batch_count >= 2
    /\ pp.pages_processed % args.dump_interval # 0
    /\ \E p \in PageNumbers : InRange(p) /\ p \in DOMAIN results /\ results[p] = <<>>
    /\ \E p \in PageNumbers : InRange(p) /\ NonEmptyResult(p)
    /\ FinalFile \in DOMAIN disk

-----------------------------------------------------------------------------
(* Claims about a batch-mode run of process_pages in progress *)

\* the text occurs in the file as a contiguous run of characters
Contains(file, text) ==
    \E i \in 0..(Len(file) - Len(text)) :
        SubSeq(file, i + 1, i + Len(text)) = text

\* the position of unit p among the units processed so far (the loop takes
\* them in ascending index)
Rank(p) == Cardinality({q \in DOMAIN results : q <= p})

\* the number of units processed up to the most recent interval boundary
Boundary == pp.pages_processed - (pp.pages_processed % args.dump_interval)

InTempFile(p) ==
    \E n \in 1..om.batch_count :
        /\ TempFileName(n) \in DOMAIN disk
        /\ Contains(disk[TempFileName(n)], WriteText(Section(p, results[p])))

\* C11: during a batch-mode run with dump_interval d, the pending buffer holds
\* at most d results, and every non-empty result of a unit processed before
\* the most recent interval boundary is in a temporary file on disk.
C11_LossBound ==
    (pc = "loop" /\ args.storage_mode = "batch")
        => /\ Len(om.current_batch) <= args.dump_interval
           /\ \A p \in DOMAIN results :
                  (Rank(p) <= Boundary /\ results[p] # <<>>) => InTempFile(p)

\* a run in progress that has flushed a batch of two results at a boundary and
\* holds a later result in the buffer
C11_Witness ==
    /\ pc = "loop"
    /\ args.storage_mode = "batch"
    /\ args.dump_interval = 2
    /\ om.batch_count = 1
    /\ om.current_batch # <<>>
    /\ \A p \in DOMAIN results : results[p] # <<>>
    /\ InTempFile(1) /\ InTempFile(2)


-----------------------------------------------------------------------------
(* Range resolution alone: process_pages up to the range check, on a pdf     *)
(* document directory of `total` pages                                       *)

RequestedPages == {None} \cup {Some(n) : n \in (0 - 2)..(MaxTotal + 2)}

\* the requests of the range-clamp examples: (start, end, total)
ExampleRequests ==
    {<<Some(0), Some(1000), 10>>, <<None, None, 7>>, <<Some(3), Some(2), 10>>}

InitResolve ==
    /\ pc = "resolve"
    /\ \E r \in (RequestedPages \X RequestedPages \X (1..MaxTotal))
                    \cup ExampleRequests :
          /\ args = [NoArgs EXCEPT !.start_page = r[1], !.end_page = r[2]]
          /\ sepDir = PdfFiles(r[3])
    /\ results = <<>>
    /\ pp = NoLocals
    /\ om = OutputManager(args.dump_interval)
    /\ disk = EmptyDisk
    /\ saved = EmptyDisk
    /\ feed = <<>>
    /\ sc = NoSplit
    /\ queue = <<>>
    /\ log = <<>>
    /\ run = 0
    /\ epub = NoEpub
    /\ pdf = NoPdf

NextResolve == Resolve

SpecResolve == InitResolve /\ [][NextResolve]_vars

Resolved == pc \in {"loop", "rejected"}

Request(s, e, n) ==
    args.start_page = s /\ args.end_page = e /\ pp.total_pages = n

\* C5: a missing start resolves to 1 and a missing end to totalUnits; a range
\* that is not rejected satisfies 1 <= start <= end <= totalUnits; (0, 1000, 10)
\* resolves to {1,10}, (None, None, 7) to {1,7}, and (3, 2, 10) is rejected.
C5_RangeResolution ==
    Resolved =>
        /\ pp.total_pages >= 1
        /\ args.start_page = None => pp.actual_start = 1
        /\ args.end_page = None => pp.actual_end = pp.total_pages
        /\ pc = "loop" => /\ 1 <= pp.actual_start
                          /\ pp.actual_start <= pp.actual_end
                          /\ pp.actual_end <= pp.total_pages
        /\ Request(Some(0), Some(1000), 10)
               => (pc = "loop" /\ page_range_of(pp) = <<1, 10>>)
        /\ Request(None, None, 7)
               => (pc = "loop" /\ page_range_of(pp) = <<1, 7>>)
        /\ Request(Some(3), Some(2), 10) => pc = "rejected"

\* the request (0, 1000, 10) has been resolved
C5_Witness ==
    /\ pc = "loop"
    /\ Request(Some(0), Some(1000), 10)
    /\ page_range_of(pp) = <<1, 10>>

Clamp(x, n) == Max(1, Min(x, n))

ClampedStart == IF args.start_page = None THEN 1
                ELSE Clamp(args.start_page[1], pp.total_pages)

ClampedEnd == IF args.end_page = None THEN pp.total_pages
              ELSE Clamp(args.end_page[1], pp.total_pages)

\* C6 as stated: start and end are both clamped into [1, n], the resolved
\* range is {clamp(s), clamp(e)}, and the request is rejected exactly when
\* clamp(s) > clamp(e).
C6_SymmetricClamp ==
    Resolved =>
        /\ pp.actual_start = ClampedStart
        /\ pp.actual_end = ClampedEnd
        /\ pc = "rejected" <=> ClampedStart > ClampedEnd

CappedEnd == IF args.end_page = None THEN pp.total_pages
             ELSE Min(args.end_page[1], pp.total_pages)

\* C6 amended: the start is clamped into [1, n]; the end is only capped at n
\* and never raised to 1; the request is rejected exactly when
\* clamp(s) > min(e, n); an accepted request resolves to {clamp(s), min(e, n)},
\* which is then {clamp(s), clamp(e)}.
C6_ClampStartCapEnd ==
    Resolved =>
        /\ pp.actual_start = ClampedStart
        /\ pp.actual_end = CappedEnd
        /\ pc = "rejected" <=> ClampedStart > CappedEnd
        /\ pc = "loop" => pp.actual_end = ClampedEnd

\* a requested end below 1 has been rejected although the clamped end would
\* not be below the clamped start
C6_Witness ==
    /\ pc = "rejected"
    /\ args.end_page # None
    /\ args.end_page[1] < 1
    /\ ClampedStart <= ClampedEnd

-----------------------------------------------------------------------------
(* split_content *)

\* sep.join(parts)
RECURSIVE Join(_, _)
Join(parts, sep) ==
    IF parts = <<>> THEN <<>>
    ELSE IF Len(parts) = 1 THEN parts[1]
    ELSE parts[1] \o <<sep>> \o Join(Tail(parts), sep)

\* the loop body with the paragraph that closes a chunk left out of the next
split_step_dropping(l, para) ==
    LET para_size == Len(para)
    IN  IF l.current_size + para_size > l.chunk_size /\ l.current_chunk # <<>>
        THEN [l EXCEPT !.chunks = Append(@, Join(l.current_chunk, NL)),
                       !.current_chunk = <<>>,
                       !.current_size = 0]
        ELSE [l EXCEPT !.current_chunk = Append(@, para),
                       !.current_size = @ + para_size]

\* the loop body with current_size not advanced when a paragraph is added
split_step_stale_size(l, para) ==
    LET para_size == Len(para)
    IN  IF l.current_size + para_size > l.chunk_size /\ l.current_chunk # <<>>
        THEN [l EXCEPT !.chunks = Append(@, Join(l.current_chunk, NL)),
                       !.current_chunk = <<para>>,
                       !.current_size = para_size]
        ELSE [l EXCEPT !.current_chunk = Append(@, para)]

\* the loop body closing a chunk only once it has grown past chunk_size
split_step_closing_late(l, para) ==
    LET para_size == Len(para)
    IN  IF l.current_size > l.chunk_size /\ l.current_chunk # <<>>
        THEN [l EXCEPT !.chunks = Append(@, Join(l.current_chunk, NL)),
                       !.current_chunk = <<para>>,
                       !.current_size = para_size]
        ELSE [l EXCEPT !.current_chunk = Append(@, para),
                       !.current_size = @ + para_size]

\* lines 39-48: the body of "for para in paragraphs"
split_step(l, para) ==
    LET para_size == Len(para)
    IN  IF l.current_size + para_size > l.chunk_size /\ l.current_chunk # <<>>
        THEN [l EXCEPT !.chunks = Append(@, Join(l.current_chunk, NL)),
                       !.current_chunk = <<para>>,
                       !.current_size = para_size]
        ELSE [l EXCEPT !.current_chunk = Append(@, para),
                       !.current_size = @ + para_size]

\* lines 50-54: close the last chunk
split_finish(l) ==
    IF l.current_chunk # <<>>
    THEN [l EXCEPT !.chunks = Append(@, Join(l.current_chunk, NL))]
    ELSE l

TextChars == {"a", "b", NL}

Texts(maxlen) == UNION {[1..n -> TextChars] : n \in 0..maxlen}

InitSplit ==
    /\ pc = "split"
    /\ \E t \in Texts(MaxTextLen) : \E size \in 1..MaxChunkSize :
          sc = [NoSplit EXCEPT !.text = t, !.chunk_size = size]
    /\ args = NoArgs
    /\ sepDir = {}
    /\ results = <<>>
    /\ pp = NoLocals
    /\ om = OutputManager(args.dump_interval)
    /\ disk = EmptyDisk
    /\ saved = EmptyDisk
    /\ feed = <<>>
    /\ pdf = NoPdf
    /\ queue = <<>>
    /\ log = <<>>
    /\ run = 0
    /\ epub = NoEpub

\* lines 33-36
SplitBegin ==
    /\ pc = "split"
    /\ sc' = [sc EXCEPT !.paragraphs = Split(sc.text, NL), !.i = 1,
                        !.chunks = <<>>, !.current_chunk = <<>>,
                        !.current_size = 0]
    /\ pc' = "para"
    /\ UNCHANGED <<args, sepDir, results, pp, om, disk, saved, feed, pdf,
                 queue, log, run, epub>>

SplitPara ==
    /\ pc = "para"
    /\ sc.i <= Len(sc.paragraphs)
    /\ sc' = [split_step(sc, sc.paragraphs[sc.i]) EXCEPT !.i = sc.i + 1]
    /\ UNCHANGED <<pc, args, sepDir, results, pp, om, disk, saved, feed, pdf,
                 queue, log, run, epub>>

SplitEnd ==
    /\ pc = "para"
    /\ sc.i > Len(sc.paragraphs)
    /\ sc' = split_finish(sc)
    /\ pc' = "done"
    /\ UNCHANGED <<args, sepDir, results, pp, om, disk, saved, feed, pdf,
                 queue, log, run, epub>>

NextSplit == SplitBegin \/ SplitPara \/ SplitEnd

SpecSplit == InitSplit /\ [][NextSplit]_vars

\* the paragraphs of a unit
Paragraphs(unit) == Split(unit, NL)

RECURSIVE SumLen(_)
SumLen(parts) == IF parts = <<>> THEN 0 ELSE Len(Head(parts)) + SumLen(Tail(parts))

\* C3: joining the units returned by split_content(T, S), in order, with one
\* newline between consecutive units gives T back exactly.
C3_ChunkIntegrity ==
    pc = "done" => Join(sc.chunks, NL) = sc.text

\* a text split into several units, one of them of several paragraphs
C3_Witness ==
    /\ pc = "done"
    /\ Len(sc.chunks) >= 2
    /\ \E k \in 1..Len(sc.chunks) : Len(Paragraphs(sc.chunks[k])) >= 2
    /\ Join(sc.chunks, NL) = sc.text

\* C4 as stated: every unit has length <= S, the newlines joining its
\* paragraphs counted, except a unit made of exactly one paragraph longer
\* than S.
C4_ChunkBound ==
    pc = "done" =>
        \A k \in 1..Len(sc.chunks) :
            \/ Len(sc.chunks[k]) <= sc.chunk_size
            \/ /\ Len(Paragraphs(sc.chunks[k])) = 1
               /\ Len(sc.chunks[k]) > sc.chunk_size

\* C4 amended: the lengths of the paragraphs of every unit sum to <= S (the
\* newlines joining them are not counted, so len(unit) <= S + paragraphs - 1),
\* except a unit made of exactly one paragraph longer than S.
C4_ParagraphSumBound ==
    pc = "done" =>
        \A k \in 1..Len(sc.chunks) :
            \/ SumLen(Paragraphs(sc.chunks[k])) <= sc.chunk_size
            \/ /\ Len(Paragraphs(sc.chunks[k])) = 1
               /\ Len(sc.chunks[k]) > sc.chunk_size

\* a unit longer than S whose paragraphs sum to S, beside an oversized
\* single-paragraph unit
C4_Witness ==
    /\ pc = "done"
    /\ \E k \in 1..Len(sc.chunks) :
          /\ Len(Paragraphs(sc.chunks[k])) >= 2
          /\ Len(sc.chunks[k]) > sc.chunk_size
          /\ SumLen(Paragraphs(sc.chunks[k])) <= sc.chunk_size
    /\ \E k \in 1..Len(sc.chunks) :
          /\ Len(Paragraphs(sc.chunks[k])) = 1
          /\ Len(sc.chunks[k]) > sc.chunk_size

-----------------------------------------------------------------------------
(* parse_pdf *)

\* the fullwidth marks are named by their code points
TerminalsFullwidthOnly == {"U+3002", "U+FF01", "U+FF1F"}

\* '。！？.!?'
Terminals == {"U+3002", "U+FF01", "U+FF1F", ".", "!", "?"}

Whitespace == {NL, " "}

Last(s) == s[Len(s)]

\* text.strip()
RECURSIVE strip(_)
strip(text) ==
    IF text = <<>> THEN <<>>
    ELSE IF Head(text) \in Whitespace THEN strip(Tail(text))
    ELSE IF Last(text) \in Whitespace THEN strip(SubSeq(text, 1, Len(text) - 1))
    ELSE text

\* the second pass with an append step that does not look at the last
\* character of the page
corrected_text_appending_always(all_pages_text, page_num) ==
    LET total_pages  == Len(all_pages_text)
        text(n)      == all_pages_text[n + 1]
        current_text == text(page_num)
        prepended ==
            IF page_num > 0 /\ current_text # <<>> /\ text(page_num - 1) # <<>>
            THEN LET prev_text      == text(page_num - 1)
                     last_paragraph == Last(Split(prev_text, NL))
                 IN  IF Last(prev_text) \notin Terminals /\ last_paragraph # <<>>
                     THEN last_paragraph \o current_text
                     ELSE current_text
            ELSE current_text
        appended ==
            IF page_num < total_pages - 1 /\ prepended # <<>>
                   /\ text(page_num + 1) # <<>>
            THEN LET next_text       == text(page_num + 1)
                     first_paragraph == Head(Split(next_text, NL))
                 IN  IF first_paragraph # <<>>
                     THEN prepended \o first_paragraph
                     ELSE prepended
            ELSE prepended
    IN  appended

\* lines 48-73: the corrected text of page page_num (0-based, as in the code)
corrected_text(all_pages_text, page_num) ==
    LET total_pages  == Len(all_pages_text)
        text(n)      == all_pages_text[n + 1]
        current_text == text(page_num)
        prepended ==
            IF page_num > 0 /\ current_text # <<>> /\ text(page_num - 1) # <<>>
            THEN LET prev_text      == text(page_num - 1)
                     last_paragraph == Last(Split(prev_text, NL))
                 IN  IF Last(prev_text) \notin Terminals /\ last_paragraph # <<>>
                     THEN last_paragraph \o current_text
                     ELSE current_text
            ELSE current_text
        appended ==
            IF page_num < total_pages - 1 /\ prepended # <<>>
                   /\ text(page_num + 1) # <<>>
            THEN LET next_text       == text(page_num + 1)
                     first_paragraph == Head(Split(next_text, NL))
                 IN  IF Last(prepended) \notin Terminals /\ first_paragraph # <<>>
                     THEN prepended \o first_paragraph
                     ELSE prepended
            ELSE prepended
    IN  appended

\* what page.get_text() may return for a page of the bounded documents
PageTexts ==
    { <<>>, <<NL>>, <<"a">>, <<"a", ".">>, <<"a", NL, "b">>,
      <<"a", NL, "b", "U+FF01">>, <<".", NL, "a">>, <<"a", ".", NL>>, <<"?">> }

\* the pages of the three-page example: chun feng chui 。 / hua kai / le 。
ScenarioDoc ==
    << <<"chun", "feng", "chui", "U+3002">>, <<"hua", "kai">>, <<"le", "U+3002">> >>

ScenarioTexts == {ScenarioDoc[n] : n \in 1..3}

InitPdf ==
    /\ pc = "read"
    /\ \E total \in 0..MaxPages :
          pdf = [NoPdf EXCEPT !.total_pages = total]
    /\ args = NoArgs
    /\ sepDir = {}
    /\ results = <<>>
    /\ pp = NoLocals
    /\ om = OutputManager(args.dump_interval)
    /\ disk = EmptyDisk
    /\ saved = EmptyDisk
    /\ feed = <<>>
    /\ sc = NoSplit
    /\ queue = <<>>
    /\ log = <<>>
    /\ run = 0
    /\ epub = NoEpub

\* lines 33-42: one iteration of the first pass; get_text either returns the
\* page's text or raises, and then the page's text is ""
ReadPage ==
    /\ pc = "read"
    /\ pdf.page_num < pdf.total_pages
    /\ \E text \in PageTexts \cup ScenarioTexts : \E raised \in BOOLEAN :
          pdf' = [pdf EXCEPT !.all_pages_text =
                                 Append(@, IF raised THEN <<>> ELSE strip(text)),
                             !.unread = IF raised THEN @ \cup {pdf.page_num + 1}
                                        ELSE @,
                             !.page_num = @ + 1]
    /\ UNCHANGED <<pc, args, sepDir, results, pp, om, disk, saved, feed, sc,
                 queue, log, run, epub>>

\* the first pass is over, the second starts at page_num 0
SecondPass ==
    /\ pc = "read"
    /\ pdf.page_num = pdf.total_pages
    /\ pdf' = [pdf EXCEPT !.page_num = 0]
    /\ pc' = "correct"
    /\ UNCHANGED <<args, sepDir, results, pp, om, disk, saved, feed, sc,
                 queue, log, run, epub>>

\* lines 84-90 and 104-109: json.dump of the page's record into
\* page_<number>.json, opened "w"
save_page(l, page_data) ==
    [l EXCEPT !.pages = Append(@, page_data),
              !.files = Put(@, PageFileName(page_data.page_number, l.total_pages),
                            page_data),
              !.page_num = @ + 1]

\* lines 46-90: one iteration of the second pass
CorrectPage ==
    /\ pc = "correct"
    /\ pdf.page_num < pdf.total_pages
    /\ LET page_data == [page_number |-> pdf.page_num + 1,
                         content     |-> corrected_text(pdf.all_pages_text, pdf.page_num),
                         total_pages |-> pdf.total_pages]
       IN  pdf' = save_page(pdf, page_data)
    /\ UNCHANGED <<pc, args, sepDir, results, pp, om, disk, saved, feed, sc,
                 queue, log, run, epub>>

PdfDone ==
    /\ pc = "correct"
    /\ pdf.page_num = pdf.total_pages
    /\ pc' = "done"
    /\ UNCHANGED <<args, sepDir, results, pp, om, disk, saved, feed, sc, pdf,
                 queue, log, run, epub>>

NextPdf == ReadPage \/ SecondPass \/ CorrectPage \/ PdfDone

SpecPdf == InitPdf /\ [][NextPdf]_vars

\* the sentence-terminal marks the reconciliation rule names
TerminalMarks == {"U+3002", "U+FF01", "U+FF1F", ".", "!", "?"}

AllTerminated ==
    \A n \in 1..Len(pdf.all_pages_text) :
        pdf.all_pages_text[n] # <<>>
            => Last(pdf.all_pages_text[n]) \in TerminalMarks

\* C8: when every non-empty stripped page text ends in a terminal mark, the
\* second pass leaves every page's text as it was; empty pages stay empty.
C8_RepairNoOp ==
    (pc \in {"correct", "done"} /\ AllTerminated) =>
        \A n \in 1..Len(pdf.pages) :
            pdf.pages[n].content = pdf.all_pages_text[n]

\* a finished document of terminated pages, with a neighbour on either side of
\* a page of several paragraphs, and an empty page
C8_Witness ==
    /\ pc = "done"
    /\ AllTerminated
    /\ Len(pdf.pages) >= 3
    /\ Len(Split(pdf.all_pages_text[2], NL)) >= 2
    /\ pdf.all_pages_text[1] # <<>>
    /\ \E n \in 1..Len(pdf.pages) : pdf.all_pages_text[n] = <<>>
    /\ \E n \in 1..Len(pdf.pages) :
          pdf.pages[n].content # <<>> /\ Last(pdf.pages[n].content) = "."

\* C9: for the pages "chun feng chui 。", "hua kai", "le 。" the corrected texts
\* are page 1 unchanged, page 2 = "hua kai le 。", page 3 = "le 。" unchanged.
C9_Scenario ==
    (pc = "done" /\ pdf.all_pages_text = ScenarioDoc) =>
        /\ pdf.pages[1].content = ScenarioDoc[1]
        /\ pdf.pages[2].content = ScenarioDoc[2] \o ScenarioDoc[3]
        /\ pdf.pages[3].content = ScenarioDoc[3]


-----------------------------------------------------------------------------
(* A long batch run: the driver hands units 1..MaxFlushes to the             *)
(* OutputManager in ascending index, every result non-empty, dump_interval 1 *)

MaxFlushes == 1000

InitFlush ==
    /\ pc = "feed"
    /\ args = [NoArgs EXCEPT !.storage_mode = "batch", !.dump_interval = 1]
    /\ sepDir = {}
    /\ feed = [p \in 1..MaxFlushes |-> [page |-> p, content |-> <<"a">>]]
    /\ results = <<>>
    /\ pp = [NoLocals EXCEPT !.total_pages = MaxFlushes, !.actual_start = 1,
                             !.actual_end = MaxFlushes]
    /\ om = OutputManager(1)
    /\ disk = EmptyDisk
    /\ saved = EmptyDisk
    /\ sc = NoSplit
    /\ queue = <<>>
    /\ log = <<>>
    /\ run = 0
    /\ epub = NoEpub
    /\ pdf = NoPdf

SpecFlush == InitFlush /\ [][NextOM]_vars

\* the temp files of flushes 1..n, in ascending batch sequence number
BySequenceNumber(n) == [i \in 1..n |-> TempFileName(i)]

\* the directory and the manager as merge_and_cleanup finds them once the
\* pending batch, if any, is flushed
BeforeMerge ==
    IF om.current_batch # <<>> THEN dump_interval_batch(om, disk)
    ELSE [o |-> om, d |-> disk]

\* C12: for every number of flushes performed in one run, 1000 or more
\* included, merge_and_cleanup writes to the final file the contents of the
\* temporary files in ascending batch sequence number.
C12_MergeOrder ==
    [][(pc # "done" /\ pc' = "done" /\ args.storage_mode = "batch"
            /\ BeforeMerge.o.batch_count > 0)
        => disk'[FinalFile] =
               CopyAll(BeforeMerge.d, BySequenceNumber(BeforeMerge.o.batch_count),
                       1, BeforeMerge.o.batch_count)]_vars


-----------------------------------------------------------------------------
(* One invocation of process_pages over the document directories of          *)
(* sep_pages, with writes to the output directory that may fail              *)

MaxDocs == 2

\* the document directories os.listdir may return
DocDirs == {PdfFiles(0), PdfFiles(1), PdfFiles(2), EpubFiles(1)}

Listings == UNION {[1..n -> DocDirs] : n \in 1..MaxDocs}

DocArgs ==
    [start_page : {None, Some(2)}, end_page : {None, Some(1)},
     storage_mode : {"append", "batch"}, dump_interval : 1..2]

InitDocs ==
    /\ pc = "list"
    /\ args \in DocArgs
    /\ queue \in Listings
    /\ log = <<>>
    /\ sepDir = {}
    /\ results = <<>>
    /\ pp = NoLocals
    /\ om = OutputManager(args.dump_interval)
    /\ disk = EmptyDisk
    /\ saved = EmptyDisk
    /\ feed = <<>>
    /\ sc = NoSplit
    /\ pdf = NoPdf
    /\ run = 0
    /\ epub = NoEpub

\* what process_pages leaves behind for the document it is through with
Outcome == [dir |-> sepDir, ended |-> pc, calls |-> DOMAIN results,
            files |-> DOMAIN disk]

\* the for statement after a rejected document, leaving the loop
loop_next_break_on_reject(ended, remaining) ==
    IF remaining = <<>> \/ ended = "rejected" THEN "returned" ELSE "resolve"

\* line 285: the for statement takes the next directory or runs out; a
\* continue (lines 302, 311) and the end of the body lead back here alike
loop_next(ended, remaining) ==
    IF remaining = <<>> THEN "returned" ELSE "resolve"

NextDocument ==
    /\ pc \in {"list", "done", "rejected", "skipped"}
    /\ log' = IF pc = "list" THEN log ELSE Append(log, Outcome)
    /\ pc' = loop_next(pc, queue)
    /\ IF pc' = "resolve"
       THEN sepDir' = Head(queue) /\ queue' = Tail(queue)
       ELSE UNCHANGED <<sepDir, queue, epub>>
    /\ results' = <<>>
    /\ disk' = EmptyDisk
    /\ pp' = NoLocals
    /\ UNCHANGED <<args, om, saved, feed, sc, pdf, run, epub>>

\* lines 339-353: the unit was extracted, then the write of the loop
\* iteration (append_to_file, or the flush that is due) raises; no handler
\* encloses the loop body, so the exception leaves process_pages
ProcessPageFails ==
    /\ pc = "loop"
    /\ pp.current_page <= pp.actual_end
    /\ pp.current_page \in DOMAIN page_file_map_of(page_files_of(sepDir))
    /\ \E literary_sentences \in ResultSet \ {<<>>} :
          /\ results' = Put(results, pp.current_page, literary_sentences)
          /\ args.storage_mode = "batch"
                 => (pp.pages_processed + 1) % args.dump_interval = 0
    /\ pc' = "raised"
    /\ UNCHANGED <<args, sepDir, pp, om, disk, saved, feed, sc, pdf,
                   queue, log, run, epub>>

\* lines 358-359: merge_and_cleanup raises on opening the final file
FinishFails ==
    /\ pc = "loop"
    /\ pp.current_page > pp.actual_end
    /\ args.storage_mode = "batch"
    /\ om.temp_files # <<>> \/ om.current_batch # <<>>
    /\ pc' = "raised"
    /\ UNCHANGED <<args, sepDir, results, pp, om, disk, saved, feed, sc, pdf,
                   queue, log, run, epub>>

NextDocs ==
    \/ NextDocument
    \/ Resolve
    \/ ProcessPage
    \/ Finish
    \/ ProcessPageFails
    \/ FinishFails

SpecDocs == InitDocs /\ [][NextDocs]_vars

\* C13: when a write, flush or merge fails while process_pages is on one
\* document, the failure is surfaced and that document stops, but no document
\* directory of the invocation is left untaken.
C13_FailureIsolation == pc = "raised" => queue = <<>>


\* C14: when the resolved start exceeds the resolved end for one document,
\* process_pages makes no extraction call and writes no output file for that
\* document, and goes on with the remaining document directories: the next
\* one is taken, or the invocation returns if none is left.
C14_InvalidRangeIsolation ==
    [][pc = "rejected"
        => /\ results = <<>>
           /\ disk = EmptyDisk
           /\ log' = Append(log, [dir |-> sepDir, ended |-> "rejected",
                                  calls |-> {}, files |-> {}])
           /\ IF queue = <<>>
              THEN pc' = "returned"
              ELSE pc' = "resolve" /\ sepDir' = Head(queue)
                       /\ queue' = Tail(queue)]_vars

\* an invocation that rejected its first document and completed a later one
\* with an output file
C14_Witness ==
    /\ Len(log) = 2
    /\ log[1].ended = "rejected"
    /\ log[1].calls = {} /\ log[1].files = {}
    /\ log[2].ended = "done"
    /\ log[2].files # {}


-----------------------------------------------------------------------------
(* process_pages on a document directory from which unit files have been     *)
(* removed since the parser wrote it                                         *)

InitHoles ==
    /\ Init
    /\ args.start_page \in {None, Some(2)}
    /\ args.end_page \in {None, Some(2)}

\* a unit file of the directory is deleted before process_pages lists it
LoseUnitFile ==
    /\ pc = "resolve"
    /\ \E f \in UnitFiles(sepDir) : sepDir' = sepDir \ {f}
    /\ UNCHANGED <<pc, args, results, pp, om, disk, saved, feed, sc, pdf,
                   queue, log, run, epub>>

NextHoles == Next \/ LoseUnitFile

SpecHoles == InitHoles /\ [][NextHoles]_vars

HasUnitFile(p) == \E f \in UnitFiles(sepDir) : get_page_number(f) = p

HasSection(p) ==
    \E name \in DOMAIN disk : \E i \in 1..Len(disk[name]) :
        disk[name][i] = Header(p)

Buffered(p) == \E i \in 1..Len(om.current_batch) : om.current_batch[i].page = p

\* C15: for every index of the resolved range the loop is past: if the index
\* has no persisted unit file, no extraction call was made and no section was
\* written for it; if it has one, it was extracted and its non-empty result
\* was aggregated (buffered or written under its header).
C15_MissingUnit ==
    pc \in {"loop", "done"} =>
        \A p \in pp.actual_start..(pp.current_page - 1) :
            IF HasUnitFile(p)
            THEN /\ p \in DOMAIN results
                 /\ results[p] # <<>> => (Buffered(p) \/ HasSection(p))
            ELSE /\ p \notin DOMAIN results
                 /\ ~Buffered(p)
                 /\ ~HasSection(p)

\* a completed run over a range whose index 1 had no unit file and whose
\* index 2 was extracted and written
C15_Witness ==
    /\ pc = "done"
    /\ pp.actual_start = 1
    /\ pp.actual_end >= 2
    /\ ~HasUnitFile(1)
    /\ HasUnitFile(2)
    /\ HasSection(2)


-----------------------------------------------------------------------------
(* parse_pdf with pages whose processing raises in the second pass *)

\* the handler's record carrying no page number
handler_page_data_unnumbered(page_num, total_pages) ==
    [page_number |-> 0, content |-> <<>>, total_pages |-> total_pages]

\* lines 98-103: the record the except branch saves for the page
handler_page_data(page_num, total_pages) ==
    [page_number |-> page_num + 1, content |-> <<>>, total_pages |-> total_pages]

\* lines 47-109: the try block raises for this page, whether before the file
\* is opened or while the record is being written; the except branch opens
\* the same file "w" and saves the record with empty content
CorrectPageRaises ==
    /\ pc = "correct"
    /\ pdf.page_num < pdf.total_pages
    /\ pdf' = save_page(pdf, handler_page_data(pdf.page_num, pdf.total_pages))
    /\ UNCHANGED <<pc, args, sepDir, results, pp, om, disk, saved, feed, sc,
                   queue, log, run, epub>>

NextPdfRaising == NextPdf \/ CorrectPageRaises

SpecPdfRaising == InitPdf /\ [][NextPdfRaising]_vars

\* C16: when parse_pdf is through with a document of N pages, the directory
\* holds exactly the N unit files of page indices 1..N, the record of index i
\* carries page number i and total N, and a page whose text could not be read
\* has empty content; this whichever pages raised while read or processed.
C16_PageAccounting ==
    pc = "done" =>
        LET N == pdf.total_pages
        IN  /\ Cardinality(DOMAIN pdf.files) = N
            /\ \A i \in 1..N :
                   /\ PageFileName(i, N) \in DOMAIN pdf.files
                   /\ pdf.files[PageFileName(i, N)].page_number = i
                   /\ pdf.files[PageFileName(i, N)].total_pages = N
                   /\ i \in pdf.unread
                          => pdf.files[PageFileName(i, N)].content = <<>>

\* a document whose first page could not be read and whose second page raised
\* in the second pass, followed by a page saved with its text
C16_Witness ==
    /\ pc = "done"
    /\ pdf.total_pages = 3
    /\ pdf.unread = {1}
    /\ pdf.all_pages_text[2] # <<>>
    /\ pdf.pages[2].content = <<>>
    /\ pdf.pages[3].content # <<>>


\* C18: in both storage modes a unit whose extraction returned the empty
\* string (nothing found, or a provider failure the adapter turned into "")
\* has no header and no section in the output and none pending, and the units
\* after it are processed all the same: once the run is over, every unit of
\* the range with a unit file was extracted and every non-empty result has its
\* section.
C18_EmptyResults ==
    pc \in {"loop", "done"} =>
        /\ \A p \in DOMAIN results :
               results[p] = <<>> => (~HasSection(p) /\ ~Buffered(p))
        /\ pc = "done" =>
               \A p \in pp.actual_start..pp.actual_end :
                   HasUnitFile(p) =>
                       /\ p \in DOMAIN results
                       /\ results[p] # <<>> => HasSection(p)

\* a completed run whose first unit returned nothing and whose second unit's
\* result was written
C18_Witness ==
    /\ pc = "done"
    /\ pp.actual_start = 1
    /\ 2 \in DOMAIN results
    /\ results[1] = <<>>
    /\ results[2] # <<>>
    /\ ~HasSection(1)
    /\ HasSection(2)

-----------------------------------------------------------------------------
(* A batch-mode run that is interrupted, the re-run from the start over the  *)
(* directory the interrupted run left, and an uninterrupted run into an      *)
(* empty directory for comparison                                            *)

InitResume ==
    /\ Init
    /\ args.storage_mode = "batch"
    /\ args.start_page \in {None, Some(2)}
    /\ args.end_page \in {None, Some(2)}

\* the process is killed between two iterations of the page loop, or after
\* the last one and before merge_and_cleanup: its memory is lost, the files
\* stay, and process_pages is started again with the same arguments
Interrupt ==
    /\ pc = "loop"
    /\ run = 0
    /\ run' = 1
    /\ log' = Append(log, [Outcome EXCEPT !.ended = "interrupted"])
    /\ pp' = NoLocals
    /\ om' = OutputManager(args.dump_interval)
    /\ pc' = "resolve"
    /\ UNCHANGED <<args, sepDir, results, disk, saved, feed, sc, pdf, queue, epub>>

\* the process is killed inside _write_batch of the flush that is due: the
\* temp file holds a proper prefix of the batch's text
InterruptInFlush ==
    /\ pc = "loop"
    /\ run = 0
    /\ pp.current_page <= pp.actual_end
    /\ pp.current_page \in DOMAIN page_file_map_of(page_files_of(sepDir))
    /\ (pp.pages_processed + 1) % args.dump_interval = 0
    /\ \E literary_sentences \in ResultSet :
          LET o1   == add_content(om, pp.current_page, literary_sentences)
              text == WriteText(Sections(SortedBatch(o1.current_batch)))
          IN  /\ o1.current_batch # <<>>
              /\ results' = Put(results, pp.current_page, literary_sentences)
              /\ \E cut \in 0..(Len(text) - 1) :
                    disk' = Put(disk, TempFileName(om.batch_count + 1),
                                SubSeq(text, 1, cut))
    /\ run' = 1
    /\ log' = Append(log, [dir |-> sepDir, ended |-> "interrupted",
                           calls |-> DOMAIN results', files |-> DOMAIN disk'])
    /\ pp' = NoLocals
    /\ om' = OutputManager(args.dump_interval)
    /\ pc' = "resolve"
    /\ UNCHANGED <<args, sepDir, saved, feed, sc, pdf, queue, epub>>

\* the re-run is over: its output is kept aside and the same run is made
\* once more, uninterrupted, into an empty output directory
RunUninterrupted ==
    /\ pc = "done"
    /\ run = 1
    /\ run' = 2
    /\ saved' = disk
    /\ disk' = EmptyDisk
    /\ pp' = NoLocals
    /\ om' = OutputManager(args.dump_interval)
    /\ pc' = "resolve"
    /\ UNCHANGED <<args, sepDir, results, feed, sc, pdf, queue, log, epub>>

NextResume == Next \/ Interrupt \/ InterruptInFlush \/ RunUninterrupted

SpecResume == InitResume /\ [][NextResume]_vars

\* C17: the final output file of the re-run that follows an interrupted
\* batch-mode run (same range, same dump_interval, same extraction results) is
\* byte-identical to the final file of an uninterrupted run: both exist or
\* neither does, and they hold the same characters.
C17_IdempotentResume ==
    (pc = "done" /\ run = 2)
        => /\ (FinalFile \in DOMAIN saved) <=> (FinalFile \in DOMAIN disk)
           /\ FinalFile \in DOMAIN disk => saved[FinalFile] = disk[FinalFile]

\* the interrupted run had left temp files behind, and the re-run and the
\* uninterrupted run each wrote a final file of at least two sections
C17_Witness ==
    /\ pc = "done"
    /\ run = 2
    /\ log # <<>>
    /\ log[1].ended = "interrupted"
    /\ TempFileName(1) \in log[1].files
    /\ FinalFile \in DOMAIN saved
    /\ Len(SectionPages(saved[FinalFile])) >= 2


-----------------------------------------------------------------------------
(* The order of extraction and of the sections of the final file *)

\* the page numbers of the section headers of a file, in the order in which
\* the headers occur, for headers of pages 0..last
HeaderPages(file, last) ==
    LET headers == {Header(p) : p \in 0..last}
        found   == SelectSeq(file, LAMBDA tok : tok \in headers)
    IN  [i \in 1..Len(found) |-> CHOOSE p \in 0..last : Header(p) = found[i]]

StrictlyAscending(pages) ==
    \A i \in 1..(Len(pages) - 1) : pages[i] < pages[i + 1]

\* the units whose extraction call is made in the step
ExtractedInStep == (DOMAIN results') \ (DOMAIN results)

\* C19: in one process_pages invocation on a document with no output file
\* yet, in either storage mode and for any dump_interval >= 1: a step extracts
\* at most one unit, of a higher index than every unit extracted before, and
\* the same step completes its aggregation (its non-empty result is buffered or
\* written before any other extraction); and the section headers of the final
\* file are in strictly ascending page number, none repeated.
C19_PageOrder ==
    [][/\ Cardinality(ExtractedInStep) <= 1
       /\ \A p \in ExtractedInStep :
              /\ \A q \in DOMAIN results : q < p
              /\ results'[p] # <<>> => (Buffered(p)' \/ HasSection(p)')
       /\ (pc' = "done" /\ FinalFile' \in DOMAIN disk')
              => StrictlyAscending(HeaderPages(disk'[FinalFile'], pp'.actual_end))
      ]_vars


-----------------------------------------------------------------------------
(* The prepend step of parse_pdf's second pass *)

\* the text of a page after the prepend step, when the step reads prev as
\* the text of the page before
PrependedFrom(prev, current_text) ==
    IF current_text # <<>> /\ prev # <<>> /\ Last(prev) \notin TerminalMarks
           /\ Last(Split(prev, NL)) # <<>>
    THEN Last(Split(prev, NL)) \o current_text
    ELSE current_text

StartsWith(text, prefix) ==
    Len(text) >= Len(prefix) /\ SubSeq(text, 1, Len(prefix)) = prefix

\* C20: the saved text of the first page starts with its own text (nothing is
\* prepended); the saved text of a page i > 1 with non-empty text starts with
\* the result of the prepend step applied to the corrected text of page i-1
\* (after that page's own prepend and append steps), not to its raw text.
C20_PrependFromCorrected ==
    \A n \in 1..Len(pdf.pages) :
        LET raw == pdf.all_pages_text[n]
        IN  IF n = 1
            THEN StartsWith(pdf.pages[1].content, raw)
            ELSE raw # <<>> =>
                     StartsWith(pdf.pages[n].content,
                                PrependedFrom(pdf.pages[n - 1].content, raw))


-----------------------------------------------------------------------------
(* The append step of parse_pdf's second pass *)

\* the text before the first newline
RECURSIVE BeforeNewline(_)
BeforeNewline(text) ==
    IF text = <<>> \/ Head(text) = NL THEN <<>>
    ELSE <<Head(text)>> \o BeforeNewline(Tail(text))

\* the text of page n after the prepend step as parse_pdf performs it
AfterPrepend(n) ==
    IF n = 1 THEN pdf.all_pages_text[1]
    ELSE PrependedFrom(pdf.all_pages_text[n - 1], pdf.all_pages_text[n])

\* C21: a page with empty raw text is saved with empty content; for a page n
\* with non-empty text the first paragraph of raw page n+1 is appended, with
\* no separator, exactly when n is not the last page, raw page n+1 is
\* non-empty and the text of page n after the prepend step does not end in a
\* terminal mark; otherwise the saved text is the text after the prepend step.
C21_AppendStep ==
    \A n \in 1..Len(pdf.pages) :
        LET N   == pdf.total_pages
            raw == pdf.all_pages_text[n]
        IN  IF raw = <<>>
            THEN pdf.pages[n].content = <<>>
            ELSE pdf.pages[n].content =
                     IF /\ n < N
                        /\ pdf.all_pages_text[n + 1] # <<>>
                        /\ Last(AfterPrepend(n)) \notin TerminalMarks
                     THEN AfterPrepend(n) \o BeforeNewline(pdf.all_pages_text[n + 1])
                     ELSE AfterPrepend(n)

\* a document whose first page takes the first paragraph of the second, whose
\* second page ends in a terminal mark and takes nothing, and whose third
\* page is empty
C21_Witness ==
    /\ pc = "done"
    /\ pdf.all_pages_text = << <<"a">>, <<"a", NL, "b", "U+FF01">>, <<>> >>
    /\ pdf.pages[1].content = <<"a", "a">>
    /\ pdf.pages[2].content = <<"a", "a", NL, "b", "U+FF01">>
    /\ pdf.pages[3].content = <<>>


-----------------------------------------------------------------------------
(* Oversized paragraphs and the closing of units in split_content *)

\* C22: for every text T and size S, a paragraph of T longer than S comes out
\* whole as a unit of its own (no other paragraph, not even an empty one, is in
\* its unit); and for every two consecutive units, the paragraph lengths of
\* the earlier unit plus the length of the first paragraph of the later unit
\* exceed S.
C22_OversizedParagraph ==
    pc = "done" =>
        /\ \A i \in 1..Len(sc.paragraphs) :
               Len(sc.paragraphs[i]) > sc.chunk_size
                   => \E k \in 1..Len(sc.chunks) : sc.chunks[k] = sc.paragraphs[i]
        /\ \A k \in 1..Len(sc.chunks) :
               \A j \in 1..Len(Paragraphs(sc.chunks[k])) :
                   Len(Paragraphs(sc.chunks[k])[j]) > sc.chunk_size
                       => Len(Paragraphs(sc.chunks[k])) = 1
        /\ \A k \in 1..(Len(sc.chunks) - 1) :
               SumLen(Paragraphs(sc.chunks[k]))
                   + Len(Paragraphs(sc.chunks[k + 1])[1]) > sc.chunk_size

\* an oversized paragraph between two empty paragraphs: three units
C22_Witness ==
    /\ pc = "done"
    /\ Len(sc.chunks) = 3
    /\ sc.chunks[1] = <<>>
    /\ Len(sc.chunks[2]) > sc.chunk_size
    /\ sc.chunks[3] = <<>>


-----------------------------------------------------------------------------
(* parse_epub: the chapters of a book cleaned, split and saved as units *)

MaxItems == 3

\* text.splitlines(), for texts whose only line boundary is the newline
splitlines(text) ==
    LET parts == Split(text, NL)
    IN  IF parts[Len(parts)] = <<>> THEN SubSeq(parts, 1, Len(parts) - 1)
        ELSE parts

\* line.split("  ")
RECURSIVE SplitDouble(_)
SplitDouble(line) ==
    IF \E i \in 1..(Len(line) - 1) : line[i] = " " /\ line[i + 1] = " "
    THEN LET i == CHOOSE i \in 1..(Len(line) - 1) :
                      /\ line[i] = " " /\ line[i + 1] = " "
                      /\ \A j \in 1..(i - 1) : ~(line[j] = " " /\ line[j + 1] = " ")
         IN  <<SubSeq(line, 1, i - 1)>> \o SplitDouble(SubSeq(line, i + 2, Len(line)))
    ELSE <<line>>

\* phrase.strip() for line in lines for phrase in line.split("  "), the lines
\* stripped first
RECURSIVE Phrases(_)
Phrases(lines) ==
    IF lines = <<>> THEN <<>>
    ELSE LET parts == SplitDouble(strip(Head(lines)))
         IN  [k \in 1..Len(parts) |-> strip(parts[k])] \o Phrases(Tail(lines))

\* clean_html_content keeping the empty phrases and the surrounding blanks
clean_html_content_unfiltered(text) == text

\* lines 15-20, applied to the text soup.get_text() returned
clean_html_content(text) ==
    Join(SelectSeq(Phrases(splitlines(text)), LAMBDA chunk : chunk # <<>>), NL)

RECURSIVE split_loop(_, _)
split_loop(l, paragraphs) ==
    IF paragraphs = <<>> THEN l
    ELSE split_loop(split_step(l, Head(paragraphs)), Tail(paragraphs))

\* split_content(text, chunk_size), lines 33-54
split_content(text, chunk_size) ==
    split_finish(split_loop([NoSplit EXCEPT !.chunk_size = chunk_size],
                            Split(text, NL))).chunks

\* what get_text() may return for a document item of the bounded books
EpubTexts ==
    { <<>>, <<" ", NL>>, <<"a">>, <<"a", NL, "a", "a">>, <<NL, "a", "a">>,
      <<"a", " ", " ", "a">> }

\* the document items of a book: chapters, and an item that is no chapter
EpubItems ==
    {[is_chapter |-> TRUE, text |-> t] : t \in EpubTexts}
        \cup {[is_chapter |-> FALSE, text |-> <<"a">>]}

\* line 80; split_content is called with its default size, the model takes
\* every size of the bound
InitEpub ==
    /\ pc = "item"
    /\ \E n \in 0..MaxItems : \E its \in [1..n -> EpubItems] :
       \E size \in 1..MaxChunkSize :
          epub = [items |-> its, chunk_size |-> size, chunk_index |-> 1,
                  chunks |-> <<>>, i |-> 1, files |-> EmptyDisk,
                  chapters |-> <<>>, item |-> 1]
    /\ args = NoArgs
    /\ sepDir = {}
    /\ results = <<>>
    /\ pp = NoLocals
    /\ om = OutputManager(args.dump_interval)
    /\ disk = EmptyDisk
    /\ saved = EmptyDisk
    /\ feed = <<>>
    /\ sc = NoSplit
    /\ pdf = NoPdf
    /\ queue = <<>>
    /\ log = <<>>
    /\ run = 0

\* lines 83-101: the next document item; not a chapter, or blank once
\* cleaned: skipped; otherwise split into the chunks of a new chapter
NextItem ==
    /\ pc = "item"
    /\ epub.item <= Len(epub.items)
    /\ LET item       == epub.items[epub.item]
           clean_text == clean_html_content(item.text)
       IN  IF ~item.is_chapter \/ strip(clean_text) = <<>>
           THEN /\ epub' = [epub EXCEPT !.item = @ + 1]
                /\ pc' = pc
           ELSE /\ epub' = [epub EXCEPT
                                !.chunks = split_content(clean_text, epub.chunk_size),
                                !.i = 1,
                                !.chapters = Append(@, <<>>)]
                /\ pc' = "chunk"
    /\ UNCHANGED <<args, sepDir, results, pp, om, disk, saved, feed, sc, pdf,
                   queue, log, run>>

\* lines 104-116: one chunk of the chapter saved under the running index
SaveChunk ==
    /\ pc = "chunk"
    /\ epub.i <= Len(epub.chunks)
    /\ LET chunk_data == [content |-> epub.chunks[epub.i],
                          chunk_index |-> epub.chunk_index,
                          chapter_chunk_index |-> epub.i]
           c == Len(epub.chapters)
       IN  epub' = [epub EXCEPT
                       !.files = Put(@, ChunkFileName(epub.chunk_index), chunk_data),
                       !.chapters[c] = Append(@, chunk_data),
                       !.chunk_index = @ + 1,
                       !.i = @ + 1]
    /\ UNCHANGED <<pc, args, sepDir, results, pp, om, disk, saved, feed, sc, pdf,
                   queue, log, run>>

\* line 118: the chapter is through
EndChapter ==
    /\ pc = "chunk"
    /\ epub.i > Len(epub.chunks)
    /\ epub' = [epub EXCEPT !.item = @ + 1]
    /\ pc' = "item"
    /\ UNCHANGED <<args, sepDir, results, pp, om, disk, saved, feed, sc, pdf,
                   queue, log, run>>

\* lines 121-123: book_info.json
WriteBookInfo ==
    /\ pc = "item"
    /\ epub.item > Len(epub.items)
    /\ epub' = [epub EXCEPT !.files = Put(@, BookInfoFileName, epub.chapters)]
    /\ pc' = "done"
    /\ UNCHANGED <<args, sepDir, results, pp, om, disk, saved, feed, sc, pdf,
                   queue, log, run>>

NextEpub == NextItem \/ SaveChunk \/ EndChapter \/ WriteBookInfo

SpecEpub == InitEpub /\ [][NextEpub]_vars

\* the units of all chapters of the result, in chapter order
RECURSIVE AllUnits(_)
AllUnits(chapters) ==
    IF chapters = <<>> THEN <<>> ELSE Head(chapters) \o AllUnits(Tail(chapters))

\* the document items that are chapters with a cleaned text that is not blank
TextChapters ==
    {n \in 1..Len(epub.items) :
        /\ epub.items[n].is_chapter
        /\ strip(clean_html_content(epub.items[n].text)) # <<>>}

\* C23: once parse_epub is through, the K persisted units carry chunk_index
\* 1, 2, ..., K in chapter order, each in the file of its index and no other
\* unit file exists; chapter_chunk_index counts 1, 2, ... within every chapter;
\* only the chapters whose cleaned text is not blank have units, so a blank
\* chapter takes no index; and every persisted unit has non-empty content.
C23_UnitIndexAssignment ==
    pc = "done" =>
        LET units == AllUnits(epub.chapters)
            K     == Len(units)
        IN  /\ \A k \in 1..K :
                   /\ units[k].chunk_index = k
                   /\ units[k].content # <<>>
                   /\ ChunkFileName(k) \in DOMAIN epub.files
                   /\ epub.files[ChunkFileName(k)] = units[k]
            /\ DOMAIN epub.files =
                   {ChunkFileName(k) : k \in 1..K} \cup {BookInfoFileName}
            /\ Len(epub.chapters) = Cardinality(TextChapters)
            /\ \A c \in 1..Len(epub.chapters) :
                   /\ epub.chapters[c] # <<>>
                   /\ \A j \in 1..Len(epub.chapters[c]) :
                          epub.chapters[c][j].chapter_chunk_index = j

\* a book with a blank chapter between two chapters of text, the first of
\* them split into two units
C23_Witness ==
    /\ pc = "done"
    /\ Len(epub.items) = 3
    /\ epub.items[2] = [is_chapter |-> TRUE, text |-> <<" ", NL>>]
    /\ Len(epub.chapters) = 2
    /\ Len(epub.chapters[1]) = 2
    /\ epub.chapters[2][1].chunk_index = 3
    /\ epub.chapters[2][1].chapter_chunk_index = 1


-----------------------------------------------------------------------------
(* A batch-mode run of process_pages over a document with unit files that    *)
(* cannot be read or parsed                                                  *)

InitUnreadable ==
    /\ Init
    /\ args.storage_mode = "batch"

\* lines 329-333: open or json.load of the unit file raises; nothing encloses
\* the statement, so the exception leaves the page loop and process_pages
\* before the extraction call and before merge_and_cleanup
ReadUnitFails ==
    /\ pc = "loop"
    /\ pp.current_page <= pp.actual_end
    /\ pp.current_page \in DOMAIN page_file_map_of(page_files_of(sepDir))
    /\ pc' = "raised"
    /\ UNCHANGED <<args, sepDir, results, pp, om, disk, saved, feed, sc, pdf,
                   queue, log, run, epub>>

NextUnreadable == Next \/ ReadUnitFails

SpecUnreadable == InitUnreadable /\ [][NextUnreadable]_vars

\* C24: in batch mode, when a failure in the middle of a document's range has
\* left process_pages and results had been flushed or accumulated before it,
\* the finalize step has run: the final file exists and holds the section of
\* every non-empty result obtained before the failure, no temporary file of
\* the run is left, and the buffer and the temp-file list are empty.
C24_FinalizeOnFailure ==
    (pc = "raised" /\ args.storage_mode = "batch"
         /\ (om.temp_files # <<>> \/ om.current_batch # <<>>))
        => /\ FinalFile \in DOMAIN disk
           /\ \A p \in DOMAIN results :
                  results[p] # <<>> =>
                      Contains(disk[FinalFile], WriteText(Section(p, results[p])))
           /\ \A n \in 1..om.batch_count : TempFileName(n) \notin DOMAIN disk
           /\ om.current_batch = <<>>
           /\ om.temp_files = <<>>


-----------------------------------------------------------------------------
(* The cadence of the flushes of a batch-mode run *)

\* the buffer once the result of unit p of this step is handed over
BufferWith(p) ==
    IF p \in DOMAIN results' /\ results'[p] # <<>>
    THEN Append(om.current_batch, [page |-> p, content |-> results'[p]])
    ELSE om.current_batch

\* the pages of the entries of a buffer
BufferPages(batch) == {batch[i].page : i \in 1..Len(batch)}

\* C25: in batch mode with dump_interval d, every iteration of the page loop
\* counts the unit as processed iff it has a unit file (an empty result
\* counts, a missing unit does not); a flush is attempted iff the count has
\* just reached a multiple of d. A flush of a non-empty buffer writes the
\* buffer, in ascending unit index, to a temp file that did not exist, numbered
\* one more than the last, leaves the other files alone and empties the
\* buffer; a flush of an empty buffer, and an iteration with no flush, write
\* no file and leave the sequence number as it is.
C25_FlushCadence ==
    [][(pc = "loop" /\ pc' = "loop" /\ args.storage_mode = "batch"
            /\ pp'.current_page = pp.current_page + 1)
        => LET p       == pp.current_page
               counted == HasUnitFile(p)
               n       == pp.pages_processed + (IF counted THEN 1 ELSE 0)
               flush   == counted /\ n % args.dump_interval = 0
               buffer  == BufferWith(p)
               name    == TempFileName(om.batch_count + 1)
           IN  /\ pp'.pages_processed = n
               /\ counted <=> p \in DOMAIN results'
               /\ IF flush /\ buffer # <<>>
                  THEN /\ om'.batch_count = om.batch_count + 1
                       /\ name \notin DOMAIN disk
                       /\ DOMAIN disk' = DOMAIN disk \cup {name}
                       /\ \A f \in DOMAIN disk : disk'[f] = disk[f]
                       /\ Ascending(SectionPages(disk'[name]))
                       /\ \A q \in PageNumbers :
                              Count(q, SectionPages(disk'[name]))
                                  = IF q \in BufferPages(buffer) THEN 1 ELSE 0
                       /\ om'.temp_files = Append(om.temp_files, name)
                       /\ om'.current_batch = <<>>
                  ELSE /\ disk' = disk
                       /\ om'.batch_count = om.batch_count
                       /\ om'.temp_files = om.temp_files
                       /\ om'.current_batch = (IF flush THEN <<>> ELSE buffer)
      ]_vars

\* a run with dump_interval 1 in which a missing unit was passed without
\* counting, a flush of an empty buffer wrote nothing, and a later flush wrote
\* the first temp file
C25_Witness ==
    /\ pc = "loop"
    /\ args.storage_mode = "batch"
    /\ args.dump_interval = 1
    /\ pp.actual_start = 1
    /\ pp.current_page = 4
    /\ ~HasUnitFile(1)
    /\ pp.pages_processed = 2
    /\ results[2] = <<>>
    /\ results[3] # <<>>
    /\ om.batch_count = 1


-----------------------------------------------------------------------------
(* A second call of merge_and_cleanup on the same OutputManager *)

\* merge_and_cleanup called again, nothing having been added since
FinalizeAgain ==
    /\ pc = "done"
    /\ LET s == merge_and_cleanup(om, disk, page_range_of(pp))
       IN  om' = s.o /\ disk' = s.d
    /\ pc' = "again"
    /\ UNCHANGED <<args, sepDir, results, pp, saved, feed, sc, pdf,
                 queue, log, run, epub>>

NextAgain == NextOM \/ FinalizeAgain

SpecAgain == InitOM /\ [][NextAgain]_vars

\* C26: a second merge_and_cleanup with no add_content in between changes
\* nothing: every file, the final output file included, keeps its content, no
\* file is created or removed, and the buffer and the temp-file list, empty
\* before the call, are empty after it.
C26_FinalizeIdempotent ==
    [][(pc = "done" /\ pc' = "again")
        => /\ disk' = disk
           /\ om' = om
           /\ om'.current_batch = <<>>
           /\ om'.temp_files = <<>>
      ]_vars

\* the second call was made after a first one that merged two temp files
C26_Witness ==
    /\ pc = "again"
    /\ om.batch_count = 2
    /\ FinalFile \in DOMAIN disk
    /\ disk[FinalFile] # <<>>


-----------------------------------------------------------------------------
(* A batch-mode run into an output directory in which an earlier,           *)
(* interrupted run has left one temp file                                    *)

\* what the earlier run had flushed into the file
StaleText == WriteText(Section(1, <<"o", "l", "d">>))

\* lines 177-187: the directory is created with exist_ok, its files stay
InitStale ==
    /\ pc = "parse"
    /\ args \in [start_page : OptPages, end_page : OptPages,
                 storage_mode : {"batch"},
                 dump_interval : 1..MaxInterval]
    /\ sepDir = {}
    /\ results = <<>>
    /\ pp = NoLocals
    /\ om = OutputManager(args.dump_interval)
    /\ \E n \in 1..MaxUnits : disk = Put(EmptyDisk, TempFileName(n), StaleText)
    /\ saved = disk
    /\ feed = <<>>
    /\ sc = NoSplit
    /\ queue = <<>>
    /\ log = <<>>
    /\ run = 0
    /\ epub = NoEpub
    /\ pdf = NoPdf

SpecStale == InitStale /\ [][Next]_vars

\* the temp files the directory held before the run that no flush of the
\* run has written over
Leftover ==
    {name \in DOMAIN saved :
        IsTempName(name) /\ \A n \in 1..om.batch_count : name # TempFileName(n)}

\* C27: a temp_batch file left in the output directory by an earlier run, and
\* not overwritten by a same-numbered flush of this run, is still in the
\* directory with its old content at every point of the run, the end
\* included, and its text is not in the final file; and the only files the
\* merge removes are the temp files this run wrote.
C27_TempFileFrame ==
    /\ \A name \in Leftover :
           name \in DOMAIN disk /\ disk[name] = saved[name]
    /\ FinalFile \in DOMAIN disk => ~Contains(disk[FinalFile], StaleText)
    /\ (DOMAIN saved) \ (DOMAIN disk)
           \subseteq {TempFileName(n) : n \in 1..om.batch_count}

\* the run flushed once and merged, next to a leftover temp file number 2
C27_Witness ==
    /\ pc = "done"
    /\ om.batch_count = 1
    /\ TempFileName(2) \in Leftover
    /\ TempFileName(2) \in DOMAIN disk
    /\ TempFileName(1) \notin DOMAIN disk
    /\ FinalFile \in DOMAIN disk
    /\ disk[FinalFile] # <<>>

====
